---- MODULE Spec2Model ----
(***************************************************************************)
(* Model of the webhook operations of the PayPal Go SDK (src/webhook.go).  *)
(*                                                                         *)
(* A Go string is modelled as a sequence of tokens, so that the            *)
(* concatenation done by fmt.Sprintf("%s%s...") is sequence concatenation  *)
(* and the empty string is the empty sequence.  Every exported method of   *)
(* webhook.go is one action; the action records the requests the call      *)
(* constructed, the authenticated sends it made, and what it returned.     *)
(***************************************************************************)
EXTENDS Integers, Sequences, FiniteSets, TLC

VARIABLES
    APIBase,    \* c.APIBase, the client's base URL
    op,         \* the method called last
    args,       \* its arguments
    status,     \* "idle", "returned", or "panicked" (the call aborted)
    requests,   \* the requests the call constructed, in order
    sends,      \* the authenticated sends the call made, in order
    logged,     \* the lines the call wrote to the log
    ret,        \* the result the call returned
    err         \* the error the call returned

vars == <<APIBase, op, args, status, requests, sends, logged, ret, err>>

----------------------------------------------------------------------------
(* Bounds of the model *)

\* longest webhook collection the server answers with
MaxList == 2
\* largest page size tried besides 50 (page sizes 0 .. MaxPageSize)
MaxPageSize == 1

----------------------------------------------------------------------------
(* Strings *)

RECURSIVE Sprintf(_)
\* fmt.Sprintf("%s%s...", parts...): the concatenation of its arguments
Sprintf(parts) ==
    IF parts = <<>> THEN <<>> ELSE Head(parts) \o Sprintf(Tail(parts))

DigitChars == <<"0", "1", "2", "3", "4", "5", "6", "7", "8", "9">>

RECURSIVE FormatNat(_)
FormatNat(n) ==
    IF n < 10 THEN <<DigitChars[n + 1]>>
    ELSE FormatNat(n \div 10) \o <<DigitChars[(n % 10) + 1]>>

\* strconv.FormatInt(int64(n), 10)
FormatInt(n) == IF n < 0 THEN <<"-">> \o FormatNat(-n) ELSE FormatNat(n)

----------------------------------------------------------------------------
(* time.Time: an instant (seconds after the zero instant) and the offset,  *)
(* in hours, of the location the value carries.                            *)

\* Time.IsZero: the instant is the zero instant, whatever the location
IsZero(t) == t.sec = 0

\* Time.UTC: the same instant, location UTC
UTC(t) == [sec |-> t.sec, off |-> 0]

TwoDigits(n) == <<DigitChars[(n \div 10) + 1], DigitChars[(n % 10) + 1]>>

\* Time.Format(time.RFC3339), for instants of the first day and whole-hour
\* offsets: the wall clock of the value's location, then "Z" or the offset
FormatRFC3339(t) ==
    LET local == t.sec + t.off * 3600
    IN  <<"0001-01-01", "T">>
        \o TwoDigits(local \div 3600) \o <<":">>
        \o TwoDigits((local \div 60) % 60) \o <<":">>
        \o TwoDigits(local % 60)
        \o (IF t.off = 0 THEN <<"Z">>
            ELSE <<"+">> \o TwoDigits(t.off) \o <<":", "0", "0">>)

----------------------------------------------------------------------------
(* url.Values *)

\* var qs url.Values: the nil map
NilValues == [panic |-> FALSE, isNil |-> TRUE, m |-> <<>>]

\* Values.Set(key, value): v[key] = []string{value}; an assignment to an
\* entry of a nil map panics
ValuesSet(v, key, value) ==
    IF v.panic THEN v
    ELSE IF v.isNil THEN [v EXCEPT !.panic = TRUE]
    ELSE [v EXCEPT !.m = (key :> value) @@ v.m]

\* the keys GetWebhookEvents sets, in the sorted order Encode emits them
SortedKeys == <<"end_time", "event_type", "page_size", "start_time", "transaction_id">>

RECURSIVE QueryEscape(_)
\* url.QueryEscape on the tokens that occur: ":" and "+" are escaped
QueryEscape(s) ==
    IF s = <<>> THEN <<>>
    ELSE (IF Head(s) = ":" THEN <<"%3A">>
          ELSE IF Head(s) = "+" THEN <<"%2B">>
          ELSE <<Head(s)>>) \o QueryEscape(Tail(s))

RECURSIVE EncodeFrom(_, _, _)
EncodeFrom(m, i, first) ==
    IF i > Len(SortedKeys) THEN <<>>
    ELSE IF SortedKeys[i] \in DOMAIN m
         THEN (IF first THEN <<>> ELSE <<"&">>)
              \o <<SortedKeys[i], "=">> \o QueryEscape(m[SortedKeys[i]])
              \o EncodeFrom(m, i + 1, FALSE)
         ELSE EncodeFrom(m, i + 1, first)

\* Values.Encode: "" for a nil or empty map, else key=value pairs sorted by
\* key and joined by "&"
Encode(v) == IF v.isNil THEN <<>> ELSE EncodeFrom(v.m, 1, TRUE)

----------------------------------------------------------------------------
(* Errors.  A Go error is a record; Nil is the nil error. *)

Nil == [kind |-> "nil", detail |-> <<>>]

\* fmt.Errorf(msg)
Errorf(msg) == [kind |-> "fmt.Errorf", detail |-> msg]

----------------------------------------------------------------------------
(* Values of the SDK's types.  A pointer or a slice is a record with an    *)
(* isNil flag.                                                             *)

ZeroWebhook == [ID |-> <<>>, URL |-> <<>>, EventTypes |-> <<>>]
ZeroEvent == [ID |-> <<>>]
ZeroOpaque == [raw |-> <<>>]

NilSlice == [isNil |-> TRUE, items |-> <<>>]
Slice(items) == [isNil |-> FALSE, items |-> items]

NilPtr == [isNil |-> TRUE, val |-> <<>>]
Ptr(v) == [isNil |-> FALSE, val |-> v]

\* what a method with no result beside the error leaves in ret
NoResult == [isNil |-> TRUE, val |-> <<>>]

\* a request body: nil, or the value NewRequest marshals
NoPayload == [isNil |-> TRUE, val |-> <<>>]
Payload(v) == [isNil |-> FALSE, val |-> v]

----------------------------------------------------------------------------
(* JSON bodies the server answers with *)

JSONObject(fields) == [kind |-> "object", fields |-> fields, items |-> <<>>]
JSONArray(items) == [kind |-> "array", fields |-> <<>>, items |-> items]
NoContent == [kind |-> "none", fields |-> <<>>, items |-> <<>>]

\* encoding/json into a Webhook: the fields named by the json tags, the
\* zero value for a field the object lacks
DecodeWebhook(fields) ==
    [ID |-> IF "id" \in DOMAIN fields THEN fields.id ELSE <<>>,
     URL |-> IF "url" \in DOMAIN fields THEN fields.url ELSE <<>>,
     EventTypes |-> IF "event_types" \in DOMAIN fields THEN fields.event_types ELSE <<>>]

DecodeEvent(fields) ==
    [ID |-> IF "id" \in DOMAIN fields THEN fields.id ELSE <<>>]

DecodeOpaque(fields) == [raw |-> fields]

\* the zero value of each output type a method hands to SendWithAuth
ZeroOf(out) ==
    CASE out = "Webhook" -> ZeroWebhook
      [] out = "Event" -> ZeroEvent
      [] out \in {"[]Webhook", "[]Event"} -> NilSlice
      [] OTHER -> ZeroOpaque

DecodeStruct(out, fields) ==
    CASE out = "Webhook" -> DecodeWebhook(fields)
      [] out = "Event" -> DecodeEvent(fields)
      [] OTHER -> DecodeOpaque(fields)

\* json.Decoder.Decode(v): an object decodes into a struct and an array
\* into a slice; a JSON object offered to a slice (or an array to a struct)
\* is an UnmarshalTypeError and leaves the zero value
Decode(body, out) ==
    IF out \in {"[]Webhook", "[]Event"}
    THEN IF body.kind = "array"
         THEN [err |-> Nil,
               val |-> Slice([i \in DOMAIN body.items |->
                                 IF out = "[]Webhook"
                                 THEN DecodeWebhook(body.items[i])
                                 ELSE DecodeEvent(body.items[i])])]
         ELSE [err |-> [kind |-> "json", detail |-> <<body.kind>>],
               val |-> NilSlice]
    ELSE IF body.kind = "object"
         THEN [err |-> Nil, val |-> DecodeStruct(out, body.fields)]
         ELSE [err |-> [kind |-> "json", detail |-> <<body.kind>>],
               val |-> ZeroOf(out)]

----------------------------------------------------------------------------
(* The collaborators of the client *)

\* url.Parse inside http.NewRequest: a URL that starts with a colon has no
\* protocol scheme and is refused
ParseFails(url) == url # <<>> /\ Head(url) = ":"

\* http.NewRequest(method, url, nil)
HttpNewRequest(method, url) ==
    [via |-> "http.NewRequest", method |-> method, url |-> url, body |-> NoPayload,
     err |-> IF ParseFails(url) THEN [kind |-> "url.Error", detail |-> url] ELSE Nil]

\* c.NewRequest(method, url, payload): the payload, when there is one, as
\* JSON body
NewRequest(method, url, payload) ==
    [via |-> "c.NewRequest", method |-> method, url |-> url, body |-> payload,
     err |-> IF ParseFails(url) THEN [kind |-> "url.Error", detail |-> url] ELSE Nil]

\* c.SendWithAuth(req, v) on the exchange x the network and the server
\* produce: a transport or status failure is its error; with v = nil the
\* body is dropped; else the body is decoded into v
SendWithAuth(req, out, x) ==
    LET d == Decode(x.body, out)
        failed == x.transport # "ok"
        e == IF failed THEN [kind |-> x.transport, detail |-> req.url]
             ELSE IF out = "nil" THEN Nil
             ELSE d.err
        v == IF failed \/ out = "nil" THEN ZeroOf(out) ELSE d.val
    IN  [req |-> req, out |-> out, x |-> x, err |-> e, val |-> v]

----------------------------------------------------------------------------
(* Inputs *)

GoodBase == <<"https://api.paypal.com">>
BadBase == <<":", "//api.paypal.com">>
Bases == {GoodBase, BadBase}

WebhookIDs == {<<>>, <<"wh_1">>, <<"wh_2">>}
EventIDs == {<<>>, <<"evt_1">>}
HookURLs == {<<>>, <<"https://example.com/hook">>}
EventTypeLists ==
    {<<>>,
     <<[name |-> <<"PAYMENT.SALE.REFUNDED">>], [name |-> <<"PAYMENT.SALE.COMPLETED">>]>>}

Webhooks == [ID : WebhookIDs, URL : HookURLs, EventTypes : EventTypeLists]

WebhookIDLists == {<<>>, <<<<"wh_1">>, <<"wh_2">>>>}

Times == {[sec |-> 0, off |-> 0], [sec |-> 0, off |-> 1], [sec |-> 3661, off |-> 1]}

PageSizes == (0 .. MaxPageSize) \cup {50}

GetWebhookEventsFilters ==
    [PageSize : PageSizes, StartTime : Times,
     EndTime : {[sec |-> 0, off |-> 0], [sec |-> 7322, off |-> 1]},
     TransactionID : {<<>>, <<"txn_1">>}, EventType : {<<>>, <<"PAYMENT.SALE.COMPLETED">>}]

SimulateEventReqs ==
    {[WebhookID |-> <<"wh_1">>, EventType |-> <<"PAYMENT.SALE.COMPLETED">>],
     [WebhookID |-> <<>>, EventType |-> <<>>]}

WebhookRequests ==
    {[WebhookID |-> <<"wh_1">>, TransmissionSig |-> <<"sig">>],
     [WebhookID |-> <<>>, TransmissionSig |-> <<>>]}

\* the i-th webhook registered on the server, as a JSON object
ServerHook(i) ==
    [id |-> <<"wh_">> \o FormatInt(i), url |-> <<"https://example.com/hook/">> \o FormatInt(i),
     event_types |-> <<[name |-> <<"PAYMENT.SALE.COMPLETED">>]>>]

\* the server's collection when it holds n webhooks, in the server's order
Collections == {[i \in 1 .. n |-> ServerHook(i)] : n \in 0 .. MaxList}

\* the documented answer of the list endpoint: {"webhooks": [...]}
Envelope(c) == JSONObject([webhooks |-> c])

\* answers to a lookup by id: {}, a webhook, an event
RecordBodies ==
    {JSONObject(<<>>),
     JSONObject([id |-> <<"wh_1">>, url |-> <<"https://example.com/hook">>,
                 event_types |-> <<[name |-> <<"PAYMENT.SALE.COMPLETED">>]>>]),
     JSONObject([id |-> <<"evt_1">>])}

Bodies == RecordBodies \cup {Envelope(c) : c \in Collections}
              \cup {JSONArray(c) : c \in Collections}

\* what the network and the server make of one request
Exchanges ==
    {[transport |-> t, body |-> NoContent] : t \in {"net", "status"}}
        \cup {[transport |-> "ok", body |-> b] : b \in Bodies}

\* the exchange of a call that never reaches the network
Unreached == [transport |-> "net", body |-> NoContent]

----------------------------------------------------------------------------
(* The end of a call *)

Return(name, a, reqs, snds, lg, r, e) ==
    /\ op' = name
    /\ args' = a
    /\ status' = "returned"
    /\ requests' = reqs
    /\ sends' = snds
    /\ logged' = lg
    /\ ret' = r
    /\ err' = e
    /\ UNCHANGED APIBase

\* a panic unwinds the call: nothing is returned
Panic(name, a, reqs, snds, lg) ==
    /\ op' = name
    /\ args' = a
    /\ status' = "panicked"
    /\ requests' = reqs
    /\ sends' = snds
    /\ logged' = lg
    /\ ret' = NoResult
    /\ err' = Nil
    /\ UNCHANGED APIBase

Init ==
    /\ APIBase \in Bases
    /\ op = "none"
    /\ args = <<>>
    /\ status = "idle"
    /\ requests = <<>>
    /\ sends = <<>>
    /\ logged = <<>>
    /\ ret = NoResult
    /\ err = Nil

----------------------------------------------------------------------------
(* The methods of webhook.go *)

CreateWebhook(w, x) ==
    LET url == Sprintf(<<APIBase, <<"/v1/notifications/webhooks">>>>)
        req == NewRequest("POST", url, Payload(w))
        sent == SendWithAuth(req, "Webhook", x)
    IN  IF req.err # Nil
        THEN Return("CreateWebhook", <<w>>, <<req>>, <<>>, <<>>, Ptr(ZeroWebhook), req.err)
        ELSE IF sent.err # Nil
        THEN Return("CreateWebhook", <<w>>, <<req>>, <<sent>>, <<>>, Ptr(sent.val), sent.err)
        ELSE Return("CreateWebhook", <<w>>, <<req>>, <<sent>>, <<>>, Ptr(sent.val), Nil)

\* the not-found error naming the decoded id instead of the requested one
WebhookNotFound_DecodedID(webhookID, w) ==
    Errorf(<<"paypalsdk: unable to get web webhook with ID = ">> \o w.ID)

\* line 52
WebhookNotFound(webhookID, w) ==
    Errorf(<<"paypalsdk: unable to get web webhook with ID = ">> \o webhookID)

GetWebhook(webhookID, x) ==
    LET url == Sprintf(<<APIBase, <<"/v1/notifications/webhooks/">>, webhookID>>)
        req == HttpNewRequest("GET", url)
        sent == SendWithAuth(req, "Webhook", x)
        w == sent.val
    IN  IF req.err # Nil
        THEN Return("GetWebhook", <<webhookID>>, <<req>>, <<>>, <<>>, Ptr(ZeroWebhook), req.err)
        ELSE IF sent.err # Nil
        THEN Return("GetWebhook", <<webhookID>>, <<req>>, <<sent>>, <<>>, Ptr(w), sent.err)
        ELSE IF w.ID = <<>>
        THEN Return("GetWebhook", <<webhookID>>, <<req>>, <<sent>>, <<>>, Ptr(w),
                    WebhookNotFound(webhookID, w))
        ELSE Return("GetWebhook", <<webhookID>>, <<req>>, <<sent>>, <<>>, Ptr(w), Nil)

GetWebhooks(x) ==
    LET url == Sprintf(<<APIBase, <<"/v1/notifications/webhooks">>>>)
        req == HttpNewRequest("GET", url)
        sent == SendWithAuth(req, "[]Webhook", x)
        ws == sent.val
    IN  IF req.err # Nil
        THEN Return("GetWebhooks", <<>>, <<req>>, <<>>, <<>>, NilSlice, req.err)
        ELSE IF sent.err # Nil
        THEN Return("GetWebhooks", <<>>, <<req>>, <<sent>>, <<>>, ws, sent.err)
        ELSE Return("GetWebhooks", <<>>, <<req>>, <<sent>>, <<>>, ws, Nil)

\* the check of the ID left out
NoIDSpecified_Unchecked(w) == FALSE

\* line 82
NoIDSpecified(w) == w.ID = <<>>

\* the two patches with their values exchanged
WebhookPatches_Swapped(w) ==
    <<[Operation |-> "replace", Path |-> "/url", Value |-> w.EventTypes],
      [Operation |-> "replace", Path |-> "/event_types", Value |-> w.URL]>>

\* lines 88-99
WebhookPatches(w) ==
    <<[Operation |-> "replace", Path |-> "/url", Value |-> w.URL],
      [Operation |-> "replace", Path |-> "/event_types", Value |-> w.EventTypes]>>

SetWebhook(w, x) ==
    LET url == Sprintf(<<APIBase, <<"/v1/notifications/webhooks/">>, w.ID>>)
        p == WebhookPatches(w)
        req == NewRequest("POST", url, Payload(p))
        sent == SendWithAuth(req, "nil", x)
    IN  IF NoIDSpecified(w)
        THEN Return("SetWebhook", <<w>>, <<>>, <<>>, <<>>, NoResult,
                    Errorf(<<"paypalsdk: no ID specified for Webhook">>))
        ELSE IF req.err # Nil
        THEN Return("SetWebhook", <<w>>, <<req>>, <<>>, <<>>, NoResult, req.err)
        ELSE IF sent.err # Nil
        THEN Return("SetWebhook", <<w>>, <<req>>, <<sent>>, <<>>, NoResult, sent.err)
        ELSE Return("SetWebhook", <<w>>, <<req>>, <<sent>>, <<>>, NoResult, Nil)

DeleteWebhook(webhookID, x) ==
    LET url == Sprintf(<<APIBase, <<"/v1/notifications/webhooks/">>, webhookID>>)
        req == NewRequest("DELETE", url, NoPayload)
        sent == SendWithAuth(req, "nil", x)
    IN  IF req.err # Nil
        THEN Return("DeleteWebhook", <<webhookID>>, <<req>>, <<>>, <<>>, NoResult, req.err)
        ELSE IF sent.err # Nil
        THEN Return("DeleteWebhook", <<webhookID>>, <<req>>, <<sent>>, <<>>, NoResult, sent.err)
        ELSE Return("DeleteWebhook", <<webhookID>>, <<req>>, <<sent>>, <<>>, NoResult, Nil)

GetWebhookEventTypes(x) ==
    LET url == Sprintf(<<APIBase, <<"/v1/notifications/webhooks-event-types">>>>)
        req == HttpNewRequest("GET", url)
        sent == SendWithAuth(req, "EventTypeList", x)
        e == sent.val
    IN  IF req.err # Nil
        THEN Return("GetWebhookEventTypes", <<>>, <<req>>, <<>>, <<>>, Ptr(ZeroOpaque), req.err)
        ELSE IF sent.err # Nil
        THEN Return("GetWebhookEventTypes", <<>>, <<req>>, <<sent>>, <<>>, Ptr(e), sent.err)
        ELSE Return("GetWebhookEventTypes", <<>>, <<req>>, <<sent>>, <<>>, Ptr(e), Nil)

\* line 171
EventNotFound(eventID, e) ==
    Errorf(<<"paypalsdk: unable to get web event with ID = ">> \o eventID)

GetWebhookEvent(eventID, x) ==
    LET url == Sprintf(<<APIBase, <<"/v1/notifications/webhook-events/">>, eventID>>)
        req == HttpNewRequest("GET", url)
        sent == SendWithAuth(req, "Event", x)
        e == sent.val
    IN  IF req.err # Nil
        THEN Return("GetWebhookEvent", <<eventID>>, <<req>>, <<>>, <<>>, Ptr(ZeroEvent), req.err)
        ELSE IF sent.err # Nil
        THEN Return("GetWebhookEvent", <<eventID>>, <<req>>, <<sent>>, <<>>, Ptr(e), sent.err)
        ELSE IF e.ID = <<>>
        THEN Return("GetWebhookEvent", <<eventID>>, <<req>>, <<sent>>, <<>>, Ptr(e),
                    EventNotFound(eventID, e))
        ELSE Return("GetWebhookEvent", <<eventID>>, <<req>>, <<sent>>, <<>>, Ptr(e), Nil)

\* a failed send swallowed: the zero event and no error
ResendWebhookEvent_Swallow(eventID, webhookIDs, x) ==
    LET url == Sprintf(<<APIBase, <<"/v1/notifications/webhook-events/">>, eventID,
                         <<"/resend">>>>)
        w == [WebhookIDs |-> webhookIDs]
        req == NewRequest("POST", url, Payload(w))
        sent == SendWithAuth(req, "Event", x)
        e == sent.val
    IN  IF req.err # Nil
        THEN Return("ResendWebhookEvent", <<eventID, webhookIDs>>, <<req>>, <<>>, <<>>,
                    NilPtr, req.err)
        ELSE Return("ResendWebhookEvent", <<eventID, webhookIDs>>, <<req>>, <<sent>>, <<>>,
                    Ptr(e), Nil)

ResendWebhookEvent(eventID, webhookIDs, x) ==
    LET url == Sprintf(<<APIBase, <<"/v1/notifications/webhook-events/">>, eventID,
                         <<"/resend">>>>)
        w == [WebhookIDs |-> webhookIDs]
        req == NewRequest("POST", url, Payload(w))
        sent == SendWithAuth(req, "Event", x)
        e == sent.val
    IN  IF req.err # Nil
        THEN Return("ResendWebhookEvent", <<eventID, webhookIDs>>, <<req>>, <<>>, <<>>,
                    NilPtr, req.err)
        ELSE IF sent.err # Nil
        THEN Return("ResendWebhookEvent", <<eventID, webhookIDs>>, <<req>>, <<sent>>, <<>>,
                    NilPtr, sent.err)
        ELSE Return("ResendWebhookEvent", <<eventID, webhookIDs>>, <<req>>, <<sent>>, <<>>,
                    Ptr(e), Nil)

\* lines 208-223: the query values; every Set is on the nil map qs
FilterValues(f) ==
    LET qs0 == NilValues
        qs1 == IF f.PageSize # 0
               THEN ValuesSet(qs0, "page_size", FormatInt(f.PageSize)) ELSE qs0
        qs2 == IF ~IsZero(f.StartTime)
               THEN ValuesSet(qs1, "start_time", FormatRFC3339(UTC(f.StartTime))) ELSE qs1
        qs3 == IF ~IsZero(f.EndTime)
               THEN ValuesSet(qs2, "end_time", FormatRFC3339(UTC(f.EndTime))) ELSE qs2
        qs4 == IF f.TransactionID # <<>>
               THEN ValuesSet(qs3, "transaction_id", f.TransactionID) ELSE qs3
        qs5 == IF f.EventType # <<>>
               THEN ValuesSet(qs4, "event_type", f.EventType) ELSE qs4
    IN  qs5

\* line 225
EventsURL(base, qs) ==
    Sprintf(<<base, <<"/v1/notifications/webhook-events">>, Encode(qs)>>)

GetWebhookEvents(f, x) ==
    LET qs == FilterValues(f)
        url == EventsURL(APIBase, qs)
        req == HttpNewRequest("GET", url)
        sent == SendWithAuth(req, "[]Event", x)
        e == sent.val
    IN  IF qs.panic
        THEN Panic("GetWebhookEvents", <<f>>, <<>>, <<>>, <<>>)
        ELSE IF req.err # Nil
        THEN Return("GetWebhookEvents", <<f>>, <<req>>, <<>>, <<>>, Ptr(NilSlice), req.err)
        ELSE IF sent.err # Nil
        THEN Return("GetWebhookEvents", <<f>>, <<req>>, <<sent>>, <<>>, Ptr(e), sent.err)
        ELSE Return("GetWebhookEvents", <<f>>, <<req>>, <<sent>>, <<>>, Ptr(e), Nil)

\* json.Marshal(r), as the line log.Println writes
Marshal(r) == <<"json", r>>

SimulateWebhookEvent(r, x) ==
    LET url == Sprintf(<<APIBase, <<"/v1/notifications/simulate-event">>>>)
        buf == Marshal(r)
        req == NewRequest("POST", url, Payload(r))
        sent == SendWithAuth(req, "Event", x)
        e == sent.val
    IN  IF req.err # Nil
        THEN Return("SimulateWebhookEvent", <<r>>, <<req>>, <<>>, <<buf>>, NilPtr, req.err)
        ELSE IF sent.err # Nil
        THEN Return("SimulateWebhookEvent", <<r>>, <<req>>, <<sent>>, <<buf>>, NilPtr, sent.err)
        ELSE Return("SimulateWebhookEvent", <<r>>, <<req>>, <<sent>>, <<buf>>, Ptr(e), Nil)

VerifyWebhookSignature(r, x) ==
    LET url == Sprintf(<<APIBase, <<"/v1/notifications/verify-webhook-signature">>>>)
        req == NewRequest("POST", url, Payload(r))
        sent == SendWithAuth(req, "VerificationStatus", x)
        e == sent.val
    IN  IF req.err # Nil
        THEN Return("VerifyWebhookSignature", <<r>>, <<req>>, <<>>, <<>>, NilPtr, req.err)
        ELSE IF sent.err # Nil
        THEN Return("VerifyWebhookSignature", <<r>>, <<req>>, <<sent>>, <<>>, NilPtr, sent.err)
        ELSE Return("VerifyWebhookSignature", <<r>>, <<req>>, <<sent>>, <<>>, Ptr(e), Nil)

----------------------------------------------------------------------------

Next ==
    \/ \E w \in Webhooks, x \in Exchanges : CreateWebhook(w, x)
    \/ \E id \in WebhookIDs, x \in Exchanges : GetWebhook(id, x)
    \/ \E x \in Exchanges : GetWebhooks(x)
    \/ \E w \in Webhooks, x \in Exchanges : SetWebhook(w, x)
    \/ \E id \in WebhookIDs, x \in Exchanges : DeleteWebhook(id, x)
    \/ \E x \in Exchanges : GetWebhookEventTypes(x)
    \/ \E id \in EventIDs, x \in Exchanges : GetWebhookEvent(id, x)
    \/ \E id \in EventIDs, ids \in WebhookIDLists, x \in Exchanges :
           ResendWebhookEvent(id, ids, x)
    \/ \E f \in GetWebhookEventsFilters :
           \* a call that panics never reaches the network: one exchange stands for all
           \E x \in IF FilterValues(f).panic THEN {Unreached} ELSE Exchanges :
               GetWebhookEvents(f, x)
    \/ \E r \in SimulateEventReqs, x \in Exchanges : SimulateWebhookEvent(r, x)
    \/ \E r \in WebhookRequests, x \in Exchanges : VerifyWebhookSignature(r, x)

Spec == Init /\ [][Next]_vars

----------------------------------------------------------------------------
(* Properties *)

\* the call ended, by returning or by a panic
Ended == status # "idle"

\* the call was refused by its check of the arguments
PreconditionFailed == op = "SetWebhook" /\ args[1].ID = <<>>

\* the last request the call constructed could not be constructed
ConstructionFailed == requests # <<>> /\ requests[Len(requests)].err # Nil

\* the authenticated send reported no error
SendSucceeded == sends # <<>> /\ sends[Len(sends)].err = Nil

\* C1: SetWebhook on a webhook whose ID is empty returns a locally made
\* error, and constructs and sends no request, whatever URL and event types
C1_EmptyIDRejected ==
    (Ended /\ op = "SetWebhook" /\ args[1].ID = <<>>) =>
        /\ status = "returned"
        /\ err # Nil
        /\ err.kind = "fmt.Errorf"
        /\ requests = <<>>
        /\ sends = <<>>

C1_Witness ==
    /\ op = "SetWebhook"
    /\ status = "returned"
    /\ args[1].ID = <<>>
    /\ args[1].URL # <<>>
    /\ args[1].EventTypes # <<>>
    /\ err # Nil

\* C2: when the send of GetWebhook or GetWebhookEvent reports no error, a
\* decoded record with a non-empty ID gives no error, and one with an empty
\* ID gives an error whose message ends with the requested id
C2_NotFoundOnEmptyID ==
    (Ended /\ op \in {"GetWebhook", "GetWebhookEvent"} /\ SendSucceeded) =>
        /\ status = "returned"
        /\ IF sends[1].val.ID # <<>>
           THEN err = Nil
           ELSE /\ err # Nil
                /\ err.kind = "fmt.Errorf"
                /\ Tail(err.detail) = args[1]

C2_Witness ==
    /\ op = "GetWebhook"
    /\ status = "returned"
    /\ SendSucceeded
    /\ sends[1].val.ID = <<>>
    /\ args[1] = <<"wh_1">>
    /\ err # Nil

C8_ErrorsPropagated ==
    (status = "returned") =>
        /\ ConstructionFailed =>
               err = requests[Len(requests)].err /\ sends = <<>>
        /\ (sends # <<>> /\ sends[Len(sends)].err # Nil) =>
               err = sends[Len(sends)].err
        /\ (SendSucceeded /\ err # Nil) =>
               /\ op \in {"GetWebhook", "GetWebhookEvent"}
               /\ sends[1].val.ID = <<>>

C8_Witness ==
    /\ op = "ResendWebhookEvent"
    /\ status = "returned"
    /\ sends # <<>>
    /\ sends[1].err # Nil
    /\ err = sends[1].err

----------------------------------------------------------------------------
(* The query and the endpoints as documented *)

\* the parameters a filter asks for: one for each field that is not zero
ExpectedParams(f) ==
    LET ps == IF f.PageSize # 0 THEN ("page_size" :> FormatInt(f.PageSize)) ELSE <<>>
        st == IF ~IsZero(f.StartTime)
              THEN ("start_time" :> FormatRFC3339(UTC(f.StartTime))) ELSE <<>>
        et == IF ~IsZero(f.EndTime)
              THEN ("end_time" :> FormatRFC3339(UTC(f.EndTime))) ELSE <<>>
        tx == IF f.TransactionID # <<>> THEN ("transaction_id" :> f.TransactionID) ELSE <<>>
        ty == IF f.EventType # <<>> THEN ("event_type" :> f.EventType) ELSE <<>>
    IN  ps @@ st @@ et @@ tx @@ ty

\* the query string of these parameters
ExpectedQuery(f) == EncodeFrom(ExpectedParams(f), 1, TRUE)

\* what follows base and path in a URL, without the "?" that introduces it
QueryOf(url, path) ==
    LET rest == SubSeq(url, Len(APIBase \o path) + 1, Len(url))
    IN  IF rest # <<>> /\ Head(rest) = "?" THEN Tail(rest) ELSE rest

ExpectedMethod ==
    [CreateWebhook |-> "POST", GetWebhook |-> "GET", GetWebhooks |-> "GET",
     SetWebhook |-> "POST", DeleteWebhook |-> "DELETE", GetWebhookEventTypes |-> "GET",
     GetWebhookEvent |-> "GET", ResendWebhookEvent |-> "POST", GetWebhookEvents |-> "GET",
     SimulateWebhookEvent |-> "POST", VerifyWebhookSignature |-> "POST"]

ExpectedPath ==
    CASE op = "CreateWebhook" -> <<"/v1/notifications/webhooks">>
      [] op = "GetWebhook" -> <<"/v1/notifications/webhooks/">> \o args[1]
      [] op = "GetWebhooks" -> <<"/v1/notifications/webhooks">>
      [] op = "SetWebhook" -> <<"/v1/notifications/webhooks/">> \o args[1].ID
      [] op = "DeleteWebhook" -> <<"/v1/notifications/webhooks/">> \o args[1]
      [] op = "GetWebhookEventTypes" -> <<"/v1/notifications/webhooks-event-types">>
      [] op = "GetWebhookEvent" -> <<"/v1/notifications/webhook-events/">> \o args[1]
      [] op = "ResendWebhookEvent" ->
             <<"/v1/notifications/webhook-events/">> \o args[1] \o <<"/resend">>
      [] op = "GetWebhookEvents" ->
             <<"/v1/notifications/webhook-events">>
                 \o (IF ExpectedQuery(args[1]) = <<>> THEN <<>>
                     ELSE <<"?">> \o ExpectedQuery(args[1]))
      [] op = "SimulateWebhookEvent" -> <<"/v1/notifications/simulate-event">>
      [] op = "VerifyWebhookSignature" -> <<"/v1/notifications/verify-webhook-signature">>

\* the answer is the documented envelope {"webhooks": [...]}
IsEnvelope(body) == body.kind = "object" /\ "webhooks" \in DOMAIN body.fields

\* C3: GetWebhookEvents constructs a request whose query holds exactly the
\* parameters of the filter's non-zero fields: none for the zero filter,
\* page_size=50 for PageSize 50, RFC3339 UTC timestamps for the times, the
\* literal strings for TransactionID and EventType
C3_QueryFromNonZeroFields ==
    (Ended /\ op = "GetWebhookEvents") =>
        /\ status = "returned"
        /\ Len(requests) = 1
        /\ QueryOf(requests[1].url, <<"/v1/notifications/webhook-events">>)
               = ExpectedQuery(args[1])

\* C4: GetWebhooks, when the exchange succeeds and the server's collection
\* is empty, returns no error and an empty slice that is not nil
C4_EmptyListNotNil ==
    (Ended /\ op = "GetWebhooks" /\ sends # <<>> /\ sends[1].x.transport = "ok"
       /\ IsEnvelope(sends[1].x.body) /\ sends[1].x.body.fields.webhooks = <<>>) =>
        /\ status = "returned"
        /\ err = Nil
        /\ ~ret.isNil
        /\ ret.items = <<>>

\* C5: GetWebhooks decodes the envelope {"webhooks": [...]} and returns
\* the webhooks inside it, in the server's order
C5_EnvelopeDecoded ==
    (Ended /\ op = "GetWebhooks" /\ sends # <<>> /\ sends[1].x.transport = "ok"
       /\ IsEnvelope(sends[1].x.body)) =>
        /\ status = "returned"
        /\ err = Nil
        /\ ret.items = [i \in DOMAIN sends[1].x.body.fields.webhooks |->
                           DecodeWebhook(sends[1].x.body.fields.webhooks[i])]

\* C7: a call whose arguments pass the local checks and whose request can
\* be constructed makes exactly one authenticated send; no call makes more
\* than one
C7_ExactlyOneSend ==
    Ended =>
        /\ Len(sends) <= 1
        /\ (~PreconditionFailed /\ ~ConstructionFailed) => Len(sends) = 1

\* C9: every call that passes its local check constructs one request, with
\* the method and the path of the endpoint table appended to the base URL
C9_EndpointTable ==
    (Ended /\ ~PreconditionFailed) =>
        /\ Len(requests) = 1
        /\ requests[1].method = ExpectedMethod[op]
        /\ requests[1].url = APIBase \o ExpectedPath

\* C10: no call panics: every call returns a result or an error
C10_NoPanic == status # "panicked"

====
